---- MODULE Spec2Model ----
(***************************************************************************)
(* Model of the visual type-alias editor (ui_alias_editor):                *)
(*   visual_editor.rs  - VisualAliasEditor: load, save, block placement,   *)
(*                       slot selection, preview, render                   *)
(*   type_palette.rs   - TypeLibraryPalette / TypeItem                     *)
(* Strings are sequences of tokens; Option<T> is <<>> (None) or <<x>>.     *)
(***************************************************************************)
EXTENDS Integers, Sequences, FiniteSets, TLC

VARIABLES
    file_path,               \* VisualAliasEditor.file_path
    name,                    \* VisualAliasEditor.name
    display_name,            \* VisualAliasEditor.display_name
    description,             \* VisualAliasEditor.description
    canvas,                  \* VisualAliasEditor.canvas (its root block)
    preview_input,           \* value of the preview InputState
    preview_needs_update,    \* VisualAliasEditor.preview_needs_update
    error_message,           \* VisualAliasEditor.error_message
    selected_slot,           \* VisualAliasEditor.selected_slot
    pending_block,           \* VisualAliasEditor.pending_block
    pending_slot_selection,  \* the shared Arc<Mutex<Option<..>>> cell
    fs_file,                 \* content of the file at file_path
    wrote,                   \* the last handler wrote fs_file
    events,                  \* ShowTypePickerRequests emitted by the last handler
    requested,               \* target slots of all requests emitted so far
    next_id,                 \* next fresh BlockId
    rendered,                \* the canvas drawn by the last render, if any
    clicks,                  \* number of canvas clicks recorded so far
    processed,               \* clicks handed to select_slot / the picker, in order
    last_op,                 \* the handler that ran last, with its inputs
    ast_in,                  \* input of ast_to_rust_string
    ast_out,                 \* its result
    registry,                \* result of get_all_type_constructors()
    palette                  \* the constructed TypeLibraryPalette

editor_vars == <<file_path, name, display_name, description, canvas,
                 preview_input, preview_needs_update, error_message,
                 selected_slot, pending_block, pending_slot_selection,
                 fs_file, wrote, events, requested, next_id, rendered,
                 clicks, processed, last_op>>
print_vars == <<ast_in, ast_out>>
palette_vars == <<registry, palette>>
vars == <<editor_vars, print_vars, palette_vars>>

None == <<>>
Some(x) == <<x>>

\* ---------------------------------------------------------------- bounds
MaxBlocks == 4
MaxClicks == 3
MaxParams == 2
MaxRegistry == 3

\* ------------------------------------------------------------ TypeAstNode
Primitive(n) == [kind |-> "Primitive", name |-> n]
Path(p) == [kind |-> "Path", path |-> p]
AliasRef(a) == [kind |-> "AliasRef", alias |-> a]
Constructor(n, ps) == [kind |-> "Constructor", name |-> n, params |-> ps]
Tuple(es) == [kind |-> "Tuple", elements |-> es]
FnPointer(ps, r) == [kind |-> "FnPointer", params |-> ps, return_type |-> r]

\* [T]::join(sep) on a sequence of strings
RECURSIVE join(_, _)
join(strs, sep) ==
    IF Len(strs) = 0 THEN <<>>
    ELSE IF Len(strs) = 1 THEN strs[1]
    ELSE strs[1] \o <<sep>> \o join(Tail(strs), sep)

ReverseSeq(s) == [i \in 1..Len(s) |-> s[Len(s) + 1 - i]]

RECURSIVE ast_to_rust_string_rev(_)
ast_to_rust_string_rev(ast) ==
    CASE ast.kind = "Primitive" -> <<ast.name>>
      [] ast.kind = "Path" -> <<ast.path>>
      [] ast.kind = "AliasRef" -> <<ast.alias>>
      [] ast.kind = "Constructor" ->
            <<ast.name, "<">>
            \o join(ReverseSeq([i \in 1..Len(ast.params) |->
                        ast_to_rust_string_rev(ast.params[i])]), ", ")
            \o <<">">>
      [] ast.kind = "Tuple" ->
            <<"(">>
            \o join(ReverseSeq([i \in 1..Len(ast.elements) |->
                        ast_to_rust_string_rev(ast.elements[i])]), ", ")
            \o <<")">>
      [] ast.kind = "FnPointer" ->
            <<"fn(">>
            \o join(ReverseSeq([i \in 1..Len(ast.params) |->
                        ast_to_rust_string_rev(ast.params[i])]), ", ")
            \o <<") -> ">> \o ast_to_rust_string_rev(ast.return_type)

RECURSIVE ast_to_rust_string(_)
ast_to_rust_string(ast) ==
    CASE ast.kind = "Primitive" -> <<ast.name>>
      [] ast.kind = "Path" -> <<ast.path>>
      [] ast.kind = "AliasRef" -> <<ast.alias>>
      [] ast.kind = "Constructor" ->
            <<ast.name, "<">>
            \o join([i \in 1..Len(ast.params) |->
                        ast_to_rust_string(ast.params[i])], ", ")
            \o <<">">>
      [] ast.kind = "Tuple" ->
            <<"(">>
            \o join([i \in 1..Len(ast.elements) |->
                        ast_to_rust_string(ast.elements[i])], ", ")
            \o <<")">>
      [] ast.kind = "FnPointer" ->
            <<"fn(">>
            \o join([i \in 1..Len(ast.params) |->
                        ast_to_rust_string(ast.params[i])], ", ")
            \o <<") -> ">> \o ast_to_rust_string(ast.return_type)

generate_preview_code(dn, ast) ==
    <<"// Auto-generated Rust type alias\npub type ", dn, " = ">>
    \o ast_to_rust_string(ast)
    \o <<";\n\n// Usage example:\n// let value: ", dn, " = ...;">>

\* ------------------------------------------------- TypeBlock / BlockCanvas
\* A block is [id, kind, name, slots]; slots is a sequence of Option<block>.
\* BlockId("") is 0, every real block has an id >= 1.
EmptyBlockId == 0

primitive(n, id) == [id |-> id, kind |-> "Primitive", name |-> n, slots |-> <<>>]
constructor(n, params_count, id) ==
    [id |-> id, kind |-> "Constructor", name |-> n,
     slots |-> [i \in 1..params_count |-> None]]

RECURSIVE block_count(_)
RECURSIVE sum_counts(_)
sum_counts(slots) ==
    IF Len(slots) = 0 THEN 0
    ELSE (IF Head(slots) = None THEN 0 ELSE block_count(Head(slots)[1]))
         + sum_counts(Tail(slots))
block_count(b) == 1 + sum_counts(b.slots)

\* TypeBlock::to_ast: Some(ast) iff no slot of the tree is empty
RECURSIVE to_ast(_)
to_ast(b) ==
    IF b.kind = "Primitive" THEN Some(Primitive(b.name))
    ELSE IF \E i \in 1..Len(b.slots) :
                b.slots[i] = None \/ to_ast(b.slots[i][1]) = None
         THEN None
         ELSE LET ps == [i \in 1..Len(b.slots) |-> to_ast(b.slots[i][1])[1]]
              IN  IF b.kind = "Tuple" THEN Some(Tuple(ps))
                  ELSE Some(Constructor(b.name, ps))

\* TypeBlock::from_ast: every slot filled, ids assigned in pre-order from id
RECURSIVE from_ast(_, _)
RECURSIVE from_ast_list(_, _)
from_ast_list(asts, id) ==
    IF Len(asts) = 0 THEN <<>>
    ELSE LET b == from_ast(Head(asts), id)
         IN  <<Some(b)>> \o from_ast_list(Tail(asts), id + block_count(b))
from_ast(ast, id) ==
    CASE ast.kind = "Primitive" -> primitive(ast.name, id)
      [] ast.kind = "Constructor" ->
            [id |-> id, kind |-> "Constructor", name |-> ast.name,
             slots |-> from_ast_list(ast.params, id + 1)]
      [] ast.kind = "Tuple" ->
            [id |-> id, kind |-> "Tuple", name |-> "",
             slots |-> from_ast_list(ast.elements, id + 1)]

\* the (parent_id, slot_idx) pairs of the tree, slot_idx counted from 0
RECURSIVE slots_of(_)
slots_of(b) ==
    {<<b.id, i - 1>> : i \in 1..Len(b.slots)}
    \cup UNION {slots_of(b.slots[i][1]) :
                    i \in {j \in 1..Len(b.slots) : b.slots[j] # None}}

RECURSIVE empty_slots_of(_)
empty_slots_of(b) ==
    {<<b.id, i - 1>> : i \in {j \in 1..Len(b.slots) : b.slots[j] = None}}
    \cup UNION {empty_slots_of(b.slots[i][1]) :
                    i \in {j \in 1..Len(b.slots) : b.slots[j] # None}}

RECURSIVE replace_slot(_, _, _, _)
replace_slot(b, parent_id, slot_idx, block) ==
    IF b.id = parent_id /\ slot_idx < Len(b.slots)
    THEN [b EXCEPT !.slots[slot_idx + 1] = Some(block)]
    ELSE [b EXCEPT !.slots = [i \in 1..Len(b.slots) |->
              IF b.slots[i] = None THEN None
              ELSE Some(replace_slot(b.slots[i][1], parent_id, slot_idx, block))]]

\* BlockCanvas: its root_block, an Option<block>
BlockCanvas_new == None
BlockCanvas_with_root(block) == Some(block)
root_block(cv) == cv
set_root_block(cv, ob) == ob

\* BlockCanvas::fill_slot: [ok, canvas]
fill_slot(cv, parent_id, slot_idx, block) ==
    IF cv # None /\ <<parent_id, slot_idx>> \in slots_of(cv[1])
    THEN [ok |-> TRUE, canvas |-> Some(replace_slot(cv[1], parent_id, slot_idx, block))]
    ELSE [ok |-> FALSE, canvas |-> cv]

\* ------------------------------------------------------------- TypeItem
PrimitiveItem(n) == [item |-> "Primitive", name |-> n]
ConstructorItem(n, pc, d) ==
    [item |-> "Constructor", name |-> n, params_count |-> pc, description |-> d]

to_block(type_item, id) ==
    IF type_item.item = "Primitive" THEN primitive(type_item.name, id)
    ELSE constructor(type_item.name, type_item.params_count, id)

\* the items a picker offers in the editor model
Items == {PrimitiveItem("i32"),
          ConstructorItem("Result", 2, "Success or failure")}

\* ------------------------------------------------- AliasAsset and its file
AliasAsset(n, dn, d, ast) ==
    [schema_version |-> 1, type_kind |-> "Alias", name |-> n,
     display_name |-> dn, description |-> d, ast |-> ast, meta |-> "{}"]

\* serde_json::to_string_pretty / from_str: a well-formed document carries
\* the asset, any other text does not parse
to_string_pretty(asset) == [json |-> asset]
from_str(content) ==
    IF "json" \in DOMAIN content
    THEN [ok |-> TRUE, val |-> content.json]
    ELSE [ok |-> FALSE, err |-> "expected value at line 1 column 1"]

TheFilePath == "types/my_alias.json"

\* what std::fs::read_to_string may find at file_path: nothing readable
\* (None), text that is no AliasAsset, or a well-formed asset
FileContents ==
    {None,
     Some([text |-> "not json"]),
     Some(to_string_pretty(AliasAsset("boxed", "Boxed", Some("A boxed int"),
              Constructor("Box", <<Primitive("i32")>>)))),
     Some(to_string_pretty(AliasAsset("pair", "Pair", None,
              Tuple(<<Primitive("i32"), Primitive("bool")>>))))}

\* ------------------------------------------------------ error messages
CannotSaveEmpty == <<"Cannot save empty type">>
EmptySlotsMsg == <<"Type has empty slots - fill all slots before saving">>
FailedToFill == <<"Failed to fill slot">>
ClickOnSlotMsg == <<"Click on an empty slot to place this type">>
FailedToParse(e) == <<"Failed to parse: ", e>>
FailedToSave(e) == <<"Failed to save: ", e>>
FailedToSerialize(e) == <<"Failed to serialize: ", e>>

NoRootPreview == <<"// Click to add a type or use the Add Type button">>
EmptySlotsPreview == <<"// Fill all slots to see generated code">>

\* ------------------------------------------------------ VisualAliasEditor
\* The handlers are functions of the editor record `self`; `events` holds the
\* ShowTypePickerRequests the running handler has emitted.
ShowTypePickerRequest(target_slot) == [target_slot |-> target_slot]

update_preview(self) ==
    LET code == IF root_block(self.canvas) # None
                THEN IF to_ast(root_block(self.canvas)[1]) # None
                     THEN generate_preview_code(self.display_name,
                              to_ast(root_block(self.canvas)[1])[1])
                     ELSE EmptySlotsPreview
                ELSE NoRootPreview
    IN  [self EXCEPT !.preview_input = code]

\* the tuple new_with_file reads from the file
load_alias(content, id) ==
    IF content # None
    THEN IF from_str(content[1]).ok
         THEN LET asset == from_str(content[1]).val
              IN  [name |-> asset.name,
                   display_name |-> asset.display_name,
                   description |-> IF asset.description = None THEN ""
                                   ELSE asset.description[1],
                   root_block |-> Some(from_ast(asset.ast, id)),
                   error_message |-> None]
         ELSE [name |-> "", display_name |-> "New Alias",
               description |-> "", root_block |-> None,
               error_message |-> Some(FailedToParse(from_str(content[1]).err))]
    ELSE [name |-> "", display_name |-> "New Alias",
          description |-> "", root_block |-> None,
          error_message |-> None]

new_with_file_flag_left(path, content, id) ==
    LET loaded == load_alias(content, id)
        editor ==
            [file_path |-> Some(path),
             name |-> loaded.name,
             display_name |-> loaded.display_name,
             description |-> loaded.description,
             canvas |-> IF loaded.root_block # None
                        THEN BlockCanvas_with_root(loaded.root_block[1])
                        ELSE BlockCanvas_new,
             preview_input |-> <<>>,
             preview_needs_update |-> TRUE,
             error_message |-> loaded.error_message,
             selected_slot |-> None,
             pending_block |-> None,
             pending_slot_selection |-> None,
             events |-> <<>>]
    IN  update_preview(editor)

new_with_file(path, content, id) ==
    LET loaded == load_alias(content, id)
        editor ==
            [file_path |-> Some(path),
             name |-> loaded.name,
             display_name |-> loaded.display_name,
             description |-> loaded.description,
             canvas |-> IF loaded.root_block # None
                        THEN BlockCanvas_with_root(loaded.root_block[1])
                        ELSE BlockCanvas_new,
             preview_input |-> <<>>,
             preview_needs_update |-> TRUE,
             error_message |-> loaded.error_message,
             selected_slot |-> None,
             pending_block |-> None,
             pending_slot_selection |-> None,
             events |-> <<>>]
    IN  [update_preview(editor) EXCEPT !.preview_needs_update = FALSE]

save_error_kept(self, file, ser_ok, write_ok) ==
    IF self.file_path # None
    THEN IF root_block(self.canvas) # None
         THEN IF to_ast(root_block(self.canvas)[1]) # None
              THEN LET asset == AliasAsset(self.name, self.display_name,
                                   IF self.description = "" THEN None
                                   ELSE Some(self.description),
                                   to_ast(root_block(self.canvas)[1])[1])
                   IN  IF ser_ok
                       THEN IF ~write_ok
                            THEN [self |-> [self EXCEPT !.error_message =
                                              Some(FailedToSave("permission denied"))],
                                  file |-> file, wrote |-> FALSE]
                            ELSE [self |-> self,
                                  file |-> Some(to_string_pretty(asset)),
                                  wrote |-> TRUE]
                       ELSE [self |-> [self EXCEPT !.error_message =
                                         Some(FailedToSerialize("serialize error"))],
                             file |-> file, wrote |-> FALSE]
              ELSE [self |-> [self EXCEPT !.error_message = Some(EmptySlotsMsg)],
                    file |-> file, wrote |-> FALSE]
         ELSE [self |-> [self EXCEPT !.error_message = Some(CannotSaveEmpty)],
               file |-> file, wrote |-> FALSE]
    ELSE [self |-> self, file |-> file, wrote |-> FALSE]

\* save: ser is the result of to_string_pretty, write_ok that of fs::write;
\* the result carries the file and whether it was written
save(self, file, ser_ok, write_ok) ==
    IF self.file_path # None
    THEN IF root_block(self.canvas) # None
         THEN IF to_ast(root_block(self.canvas)[1]) # None
              THEN LET asset == AliasAsset(self.name, self.display_name,
                                   IF self.description = "" THEN None
                                   ELSE Some(self.description),
                                   to_ast(root_block(self.canvas)[1])[1])
                   IN  IF ser_ok
                       THEN IF ~write_ok
                            THEN [self |-> [self EXCEPT !.error_message =
                                              Some(FailedToSave("permission denied"))],
                                  file |-> file, wrote |-> FALSE]
                            ELSE [self |-> [self EXCEPT !.error_message = None],
                                  file |-> Some(to_string_pretty(asset)),
                                  wrote |-> TRUE]
                       ELSE [self |-> [self EXCEPT !.error_message =
                                         Some(FailedToSerialize("serialize error"))],
                             file |-> file, wrote |-> FALSE]
              ELSE [self |-> [self EXCEPT !.error_message = Some(EmptySlotsMsg)],
                    file |-> file, wrote |-> FALSE]
         ELSE [self |-> [self EXCEPT !.error_message = Some(CannotSaveEmpty)],
               file |-> file, wrote |-> FALSE]
    ELSE [self |-> self, file |-> file, wrote |-> FALSE]

toggle_palette(self) ==
    [self EXCEPT !.events = Append(@, ShowTypePickerRequest(self.selected_slot))]

add_block_to_canvas_flag_unset(self, block) ==
    LET s1 ==
        IF root_block(self.canvas) = None
        THEN [self EXCEPT !.canvas = set_root_block(@, Some(block)),
                          !.error_message = None,
                          !.pending_block = None,
                          !.selected_slot = None]
        ELSE IF self.selected_slot # None
             THEN LET r == fill_slot(self.canvas, self.selected_slot[1][1],
                                     self.selected_slot[1][2], block)
                  IN  IF r.ok
                      THEN [self EXCEPT !.canvas = r.canvas,
                                        !.error_message = None,
                                        !.selected_slot = None,
                                        !.pending_block = None]
                      ELSE [self EXCEPT !.error_message = Some(FailedToFill)]
             ELSE [self EXCEPT !.pending_block = Some(block),
                               !.error_message = Some(ClickOnSlotMsg)]
    IN  s1

add_block_to_canvas_block_dropped(self, block) ==
    LET s1 ==
        IF root_block(self.canvas) = None
        THEN [self EXCEPT !.canvas = set_root_block(@, Some(block)),
                          !.error_message = None,
                          !.pending_block = None,
                          !.selected_slot = None]
        ELSE IF self.selected_slot # None
             THEN LET r == fill_slot(self.canvas, self.selected_slot[1][1],
                                     self.selected_slot[1][2], block)
                  IN  IF r.ok
                      THEN [self EXCEPT !.canvas = r.canvas,
                                        !.error_message = None,
                                        !.selected_slot = None,
                                        !.pending_block = None]
                      ELSE [self EXCEPT !.error_message = Some(FailedToFill)]
             ELSE [self EXCEPT !.error_message = Some(ClickOnSlotMsg)]
    IN  [s1 EXCEPT !.preview_needs_update = TRUE]

add_block_to_canvas(self, block) ==
    LET s1 ==
        IF root_block(self.canvas) = None
        THEN [self EXCEPT !.canvas = set_root_block(@, Some(block)),
                          !.error_message = None,
                          !.pending_block = None,
                          !.selected_slot = None]
        ELSE IF self.selected_slot # None
             THEN LET r == fill_slot(self.canvas, self.selected_slot[1][1],
                                     self.selected_slot[1][2], block)
                  IN  IF r.ok
                      THEN [self EXCEPT !.canvas = r.canvas,
                                        !.error_message = None,
                                        !.selected_slot = None,
                                        !.pending_block = None]
                      ELSE [self EXCEPT !.error_message = Some(FailedToFill)]
             ELSE [self EXCEPT !.pending_block = Some(block),
                               !.error_message = Some(ClickOnSlotMsg)]
    IN  [s1 EXCEPT !.preview_needs_update = TRUE]

select_slot_picker_too(self, parent_id, slot_idx) ==
    LET s1 == [self EXCEPT !.selected_slot = Some(<<parent_id, slot_idx>>)]
        s2 == [s1 EXCEPT !.events =
                Append(@, ShowTypePickerRequest(Some(<<parent_id, slot_idx>>)))]
    IN  IF s1.pending_block # None
        THEN add_block_to_canvas([s2 EXCEPT !.pending_block = None],
                                 s1.pending_block[1])
        ELSE s2

select_slot(self, parent_id, slot_idx) ==
    LET s1 == [self EXCEPT !.selected_slot = Some(<<parent_id, slot_idx>>)]
    IN  IF s1.pending_block # None
        THEN add_block_to_canvas([s1 EXCEPT !.pending_block = None],
                                 s1.pending_block[1])
        ELSE [s1 EXCEPT !.events =
                Append(@, ShowTypePickerRequest(Some(<<parent_id, slot_idx>>)))]

add_type_from_picker_other_message(self, type_item, target_slot, id) ==
    LET block == to_block(type_item, id)
        s1 == IF target_slot # None
              THEN LET r == fill_slot(self.canvas, target_slot[1][1],
                                      target_slot[1][2], block)
                   IN  IF r.ok
                       THEN [self EXCEPT !.canvas = r.canvas,
                                         !.error_message = None,
                                         !.selected_slot = None]
                       ELSE [self EXCEPT !.error_message = Some(<<"Slot not found">>)]
              ELSE add_block_to_canvas(self, block)
    IN  [s1 EXCEPT !.preview_needs_update = TRUE]

add_type_from_picker_selected_first(self, type_item, target_slot, id) ==
    LET block == to_block(type_item, id)
        slot == IF self.selected_slot # None THEN self.selected_slot ELSE target_slot
        s1 == IF target_slot # None
              THEN LET r == fill_slot(self.canvas, slot[1][1], slot[1][2], block)
                   IN  IF r.ok
                       THEN [self EXCEPT !.canvas = r.canvas,
                                         !.error_message = None,
                                         !.selected_slot = None]
                       ELSE [self EXCEPT !.error_message = Some(FailedToFill)]
              ELSE add_block_to_canvas(self, block)
    IN  [s1 EXCEPT !.preview_needs_update = TRUE]

add_type_from_picker(self, type_item, target_slot, id) ==
    LET block == to_block(type_item, id)
        s1 == IF target_slot # None
              THEN LET r == fill_slot(self.canvas, target_slot[1][1],
                                      target_slot[1][2], block)
                   IN  IF r.ok
                       THEN [self EXCEPT !.canvas = r.canvas,
                                         !.error_message = None,
                                         !.selected_slot = None]
                       ELSE [self EXCEPT !.error_message = Some(FailedToFill)]
              ELSE add_block_to_canvas(self, block)
    IN  [s1 EXCEPT !.preview_needs_update = TRUE]

render_cell_kept(self) ==
    LET s1 == IF self.preview_needs_update
              THEN [update_preview(self) EXCEPT !.preview_needs_update = FALSE]
              ELSE self
        pending_selection == s1.pending_slot_selection
        s2 == s1
    IN  IF pending_selection # None
        THEN IF pending_selection[1].sel[1] = EmptyBlockId
             THEN [s2 EXCEPT !.events = Append(@, ShowTypePickerRequest(None))]
             ELSE select_slot(s2, pending_selection[1].sel[1],
                              pending_selection[1].sel[2])
        ELSE s2

\* Render::render up to the element tree: refresh the preview, then take the
\* pending click out of the shared cell and act on it.  The cell holds
\* [sel |-> <<block_id, slot_idx>>, click |-> number of the click].
render(self) ==
    LET s1 == IF self.preview_needs_update
              THEN [update_preview(self) EXCEPT !.preview_needs_update = FALSE]
              ELSE self
        pending_selection == s1.pending_slot_selection
        s2 == [s1 EXCEPT !.pending_slot_selection = None]
    IN  IF pending_selection # None
        THEN IF pending_selection[1].sel[1] = EmptyBlockId
             THEN [s2 EXCEPT !.events = Append(@, ShowTypePickerRequest(None))]
             ELSE select_slot(s2, pending_selection[1].sel[1],
                              pending_selection[1].sel[2])
        ELSE s2

\* slot_handler / empty_handler: store the click in the shared cell
slot_handler(cell, block_id, slot_idx, n) ==
    Some([sel |-> <<block_id, slot_idx>>, click |-> n])
empty_handler(cell, n) ==
    Some([sel |-> <<EmptyBlockId, 0>>, click |-> n])

\* ----------------------------------------------------- TypeLibraryPalette
\* Category names are compared by sort_by_key, so they are byte strings.
STR_Primitives == <<80, 114, 105, 109, 105, 116, 105, 118, 101, 115>>
STR_Collections == <<67, 111, 108, 108, 101, 99, 116, 105, 111, 110, 115>>
STR_Core == <<67, 111, 114, 101>>
STR_Cor == <<67, 111, 114>>
STR_SmartPointers == <<83, 109, 97, 114, 116, 32, 80, 111, 105, 110, 116, 101, 114, 115>>

PRIMITIVES == <<"i32", "bool", "String">>

\* the entries get_all_type_constructors() can return
TypeConstructors ==
    {[name |-> "Vec", params_count |-> 1, description |-> "Growable array",
      category |-> STR_Collections],
     [name |-> "HashMap", params_count |-> 2, description |-> "Hash map",
      category |-> STR_Collections],
     [name |-> "Option", params_count |-> 1, description |-> "Optional value",
      category |-> STR_Core],
     [name |-> "Cow", params_count |-> 1, description |-> "Clone on write",
      category |-> STR_Cor],
     [name |-> "Box", params_count |-> 1, description |-> "Heap pointer",
      category |-> STR_SmartPointers]}

\* Ord for str: lexicographic on bytes
RECURSIVE str_lt(_, _)
str_lt(a, b) ==
    IF Len(b) = 0 THEN FALSE
    ELSE IF Len(a) = 0 THEN TRUE
    ELSE IF a[1] # b[1] THEN a[1] < b[1]
    ELSE str_lt(Tail(a), Tail(b))

\* insert e into a list sorted by key, after every entry whose key is not greater
RECURSIVE insert_by_key(_, _)
insert_by_key(sorted, e) ==
    IF Len(sorted) = 0 THEN <<e>>
    ELSE IF str_lt(e[1], sorted[1][1]) THEN <<e>> \o sorted
    ELSE <<sorted[1]>> \o insert_by_key(Tail(sorted), e)

unsorted(list) == list

\* slice::sort_by_key(|(name, _)| *name): a stable sort
RECURSIVE sort_by_key(_)
sort_by_key(list) ==
    IF Len(list) = 0 THEN <<>>
    ELSE insert_by_key(sort_by_key(SubSeq(list, 1, Len(list) - 1)), list[Len(list)])

\* by_category after the grouping loop: category |-> items in registry order
RECURSIVE group_by_category(_, _)
group_by_category(constructors, by_category) ==
    IF Len(constructors) = 0 THEN by_category
    ELSE LET ctor == Head(constructors)
             item == ConstructorItem(ctor.name, ctor.params_count, ctor.description)
             entry == IF ctor.category \in DOMAIN by_category
                      THEN by_category[ctor.category] ELSE <<>>
         IN  group_by_category(Tail(constructors),
                 [c \in DOMAIN by_category \cup {ctor.category} |->
                     IF c = ctor.category THEN Append(entry, item)
                     ELSE by_category[c]])

\* the orders in which HashMap::into_iter may yield the keys
IterationOrders(keys) ==
    {o \in [1..Cardinality(keys) -> keys] :
        \A i, j \in 1..Cardinality(keys) : i # j => o[i] # o[j]}

\* TypeLibraryPalette::new; order is the iteration order of by_category
TypeLibraryPalette_new(target_slot, constructors, order) ==
    LET primitives == [i \in 1..Len(PRIMITIVES) |-> PrimitiveItem(PRIMITIVES[i])]
        by_category == group_by_category(constructors, [c \in {} |-> <<>>])
        category_list == sort_by_key([i \in 1..Len(order) |->
                                        <<order[i], by_category[order[i]]>>])
    IN  [categories |-> <<<<STR_Primitives, primitives>>>> \o category_list,
         selected_item |-> None,
         target_slot |-> target_slot]

\* PaletteDelegate::categories
categories(p) == p.categories

\* ------------------------------------------ inputs of ast_to_rust_string
SeqsUpTo(S, n) == UNION {[1..k -> S] : k \in 0..n}

AstLeaves == {Primitive("i32"), Path("std::string::String"), AliasRef("MyAlias")}

AstNodesOver(S) ==
    {Constructor("Vec", ps) : ps \in SeqsUpTo(S, MaxParams)}
    \cup {Tuple(es) : es \in SeqsUpTo(S, MaxParams)}
    \cup {FnPointer(ps, r) : ps \in SeqsUpTo(S, MaxParams), r \in S}

AstNested ==
    {Primitive("bool"),
     Constructor("Option", <<Path("std::string::String")>>),
     Tuple(<<Primitive("i32"), AliasRef("MyAlias")>>),
     FnPointer(<<Primitive("i32"), Primitive("u8")>>, Tuple(<<>>))}

AstInputs == AstLeaves \cup AstNodesOver(AstLeaves) \cup AstNodesOver(AstNested)

\* ------------------------------------------------------- the state machine
Self ==
    [file_path |-> file_path, name |-> name, display_name |-> display_name,
     description |-> description, canvas |-> canvas,
     preview_input |-> preview_input,
     preview_needs_update |-> preview_needs_update,
     error_message |-> error_message, selected_slot |-> selected_slot,
     pending_block |-> pending_block,
     pending_slot_selection |-> pending_slot_selection,
     events |-> <<>>]

\* the editor after a handler returned s; the emitted requests reach the
\* subscriber, which opens a picker for each target slot
Becomes(s) ==
    /\ file_path' = s.file_path
    /\ name' = s.name
    /\ display_name' = s.display_name
    /\ description' = s.description
    /\ canvas' = s.canvas
    /\ preview_input' = s.preview_input
    /\ preview_needs_update' = s.preview_needs_update
    /\ error_message' = s.error_message
    /\ selected_slot' = s.selected_slot
    /\ pending_block' = s.pending_block
    /\ pending_slot_selection' = s.pending_slot_selection
    /\ events' = s.events
    /\ requested' = requested \cup {s.events[i].target_slot : i \in 1..Len(s.events)}

NoPrint == ast_in = None /\ ast_out = None
NoPalette == registry = <<>> /\ palette = None

Init ==
    /\ \E content \in FileContents :
        LET s == new_with_file(TheFilePath, content, 1)
        IN  /\ file_path = s.file_path
            /\ name = s.name
            /\ display_name = s.display_name
            /\ description = s.description
            /\ canvas = s.canvas
            /\ preview_input = s.preview_input
            /\ preview_needs_update = s.preview_needs_update
            /\ error_message = s.error_message
            /\ selected_slot = s.selected_slot
            /\ pending_block = s.pending_block
            /\ pending_slot_selection = s.pending_slot_selection
            /\ events = s.events
            /\ fs_file = content
            /\ next_id = 1 + (IF s.canvas = None THEN 0 ELSE block_count(s.canvas[1]))
    /\ wrote = FALSE
    /\ requested = {}
    /\ rendered = None
    /\ clicks = 0
    /\ processed = <<>>
    /\ last_op = [op |-> "new_with_file"]
    /\ NoPrint
    /\ NoPalette

\* the Save action / save_btn
Save ==
    \E ser_ok \in BOOLEAN, write_ok \in BOOLEAN :
        LET r == save(Self, fs_file, ser_ok, write_ok)
        IN  /\ Becomes(r.self)
            /\ fs_file' = r.file
            /\ wrote' = r.wrote
            /\ last_op' = [op |-> "save", ser_ok |-> ser_ok, write_ok |-> write_ok]
            /\ UNCHANGED <<next_id, rendered, clicks, processed, print_vars,
                           palette_vars>>

\* the TogglePalette action / add_type_btn
TogglePalette ==
    /\ Becomes(toggle_palette(Self))
    /\ wrote' = FALSE
    /\ last_op' = [op |-> "toggle_palette"]
    /\ UNCHANGED <<fs_file, next_id, rendered, clicks, processed, print_vars,
                   palette_vars>>

\* a picker opened by an earlier request confirms an item
AddTypeFromPicker ==
    /\ next_id <= MaxBlocks
    /\ \E type_item \in Items, target_slot \in requested :
        /\ Becomes(add_type_from_picker(Self, type_item, target_slot, next_id))
        /\ last_op' = [op |-> "add_type_from_picker", type_item |-> type_item,
                       target_slot |-> target_slot]
    /\ next_id' = next_id + 1
    /\ wrote' = FALSE
    /\ UNCHANGED <<fs_file, rendered, clicks, processed, print_vars,
                   palette_vars>>

\* the canvas drawn last calls slot_handler for a click on one of its empty slots
SlotClick ==
    /\ clicks < MaxClicks
    /\ rendered # None
    /\ rendered[1] # None
    /\ \E slot \in empty_slots_of(rendered[1][1]) :
        pending_slot_selection' =
            slot_handler(pending_slot_selection, slot[1], slot[2], clicks + 1)
    /\ clicks' = clicks + 1
    /\ events' = <<>>
    /\ wrote' = FALSE
    /\ last_op' = [op |-> "slot_handler"]
    /\ UNCHANGED <<file_path, name, display_name, description, canvas,
                   preview_input, preview_needs_update, error_message,
                   selected_slot, pending_block, fs_file, requested, next_id,
                   rendered, processed, print_vars, palette_vars>>

\* the canvas drawn last calls empty_handler for a click on its empty state
EmptyClick ==
    /\ clicks < MaxClicks
    /\ rendered = Some(None)
    /\ pending_slot_selection' = empty_handler(pending_slot_selection, clicks + 1)
    /\ clicks' = clicks + 1
    /\ events' = <<>>
    /\ wrote' = FALSE
    /\ last_op' = [op |-> "empty_handler"]
    /\ UNCHANGED <<file_path, name, display_name, description, canvas,
                   preview_input, preview_needs_update, error_message,
                   selected_slot, pending_block, fs_file, requested, next_id,
                   rendered, processed, print_vars, palette_vars>>

Render ==
    /\ Becomes(render(Self))
    /\ processed' = IF pending_slot_selection # None
                    THEN Append(processed, pending_slot_selection[1].click)
                    ELSE processed
    /\ rendered' = Some(render(Self).canvas)
    /\ wrote' = FALSE
    /\ last_op' = [op |-> "render",
                   select_slot |->
                       IF /\ pending_slot_selection # None
                          /\ pending_slot_selection[1].sel[1] # EmptyBlockId
                       THEN Some([parent_id |-> pending_slot_selection[1].sel[1],
                                  slot_idx |-> pending_slot_selection[1].sel[2],
                                  pending_block |-> pending_block])
                       ELSE None]
    /\ UNCHANGED <<fs_file, next_id, clicks, print_vars, palette_vars>>

Next ==
    \/ Save
    \/ TogglePalette
    \/ AddTypeFromPicker
    \/ SlotClick
    \/ EmptyClick
    \/ Render

Spec == Init /\ [][Next]_vars

\* ------------------------------------- ast_to_rust_string on bounded ASTs
EditorIdle ==
    LET s == new_with_file(TheFilePath, None, 1)
    IN  /\ file_path = s.file_path
        /\ name = s.name
        /\ display_name = s.display_name
        /\ description = s.description
        /\ canvas = s.canvas
        /\ preview_input = s.preview_input
        /\ preview_needs_update = s.preview_needs_update
        /\ error_message = s.error_message
        /\ selected_slot = s.selected_slot
        /\ pending_block = s.pending_block
        /\ pending_slot_selection = s.pending_slot_selection
        /\ events = s.events
        /\ fs_file = None
        /\ next_id = 1
        /\ wrote = FALSE
        /\ requested = {}
        /\ rendered = None
        /\ clicks = 0
        /\ processed = <<>>
        /\ last_op = [op |-> "new_with_file"]

PrintInit ==
    /\ EditorIdle
    /\ NoPalette
    /\ \E ast \in AstInputs : ast_in = Some(ast)
    /\ ast_out = None

PrintAst ==
    /\ ast_in # None
    /\ ast_out = None
    /\ ast_out' = Some(ast_to_rust_string(ast_in[1]))
    /\ UNCHANGED <<ast_in, editor_vars, palette_vars>>

PrintNext == PrintAst

SpecPrint == PrintInit /\ [][PrintNext]_vars

\* ------------------------------- TypeLibraryPalette::new on bounded registries
Registries ==
    {r \in SeqsUpTo(TypeConstructors, MaxRegistry) :
        \A i, j \in 1..Len(r) : i # j => r[i] # r[j]}

PaletteInit ==
    /\ EditorIdle
    /\ NoPrint
    /\ \E r \in Registries : registry = r
    /\ palette = None

PaletteNew ==
    /\ palette = None
    /\ LET keys == {registry[i].category : i \in 1..Len(registry)}
       IN  \E order \in IterationOrders(keys),
              target_slot \in {None, Some(<<1, 0>>)} :
              palette' = Some(TypeLibraryPalette_new(target_slot, registry, order))
    /\ UNCHANGED <<registry, editor_vars, print_vars>>

PaletteNext == PaletteNew

SpecPalette == PaletteInit /\ [][PaletteNext]_vars

\* ============================================================== properties
RootComplete == canvas # None /\ to_ast(canvas[1]) # None

IoFailurePrefixes == {"Failed to parse: ", "Failed to save: ", "Failed to serialize: "}

\* the asset save builds from the editor's fields
SavedAsset ==
    AliasAsset(name, display_name,
               IF description = "" THEN None ELSE Some(description),
               to_ast(canvas[1])[1])

\* C1 as stated: save writes the asset if and only if the canvas has a root
\* that converts to an AST; "Cannot save empty type" without a root, the
\* empty-slots message for an incomplete root, None after a successful write.
C1_SaveWritesIffComplete ==
    last_op.op = "save" =>
        /\ wrote <=> RootComplete
        /\ canvas = None => ~wrote /\ error_message = Some(CannotSaveEmpty)
        /\ (canvas # None /\ ~RootComplete) =>
                ~wrote /\ error_message = Some(EmptySlotsMsg)
        /\ wrote => error_message = None

\* C1 amended: save writes the asset if and only if the root converts to an
\* AST and both the serialization and the file write succeed; a failed
\* serialization leaves "Failed to serialize: ..", a failed write
\* "Failed to save: ..", and nothing is written in either case.
C1_SaveWritesIffCompleteAndIoOk ==
    last_op.op = "save" =>
        /\ wrote <=> (RootComplete /\ last_op.ser_ok /\ last_op.write_ok)
        /\ wrote => error_message = None /\ fs_file = Some(to_string_pretty(SavedAsset))
        /\ canvas = None => error_message = Some(CannotSaveEmpty)
        /\ (canvas # None /\ ~RootComplete) => error_message = Some(EmptySlotsMsg)
        /\ (RootComplete /\ ~last_op.ser_ok) =>
                error_message # None /\ Head(error_message[1]) = "Failed to serialize: "
        /\ (RootComplete /\ last_op.ser_ok /\ ~last_op.write_ok) =>
                error_message # None /\ Head(error_message[1]) = "Failed to save: "

C1_Witness ==
    /\ last_op.op = "save"
    /\ wrote
    /\ fs_file = Some(to_string_pretty(SavedAsset))
    /\ canvas[1].kind = "Constructor"

\* C2 as stated: error_message is None or a parse/save/serialize failure.
C2_OnlyIoFailureMessages ==
    error_message = None \/ Head(error_message[1]) \in IoFailurePrefixes

\* C2 amended: error_message is None, a parse/save/serialize failure, or one
\* of the four fixed messages "Cannot save empty type", "Type has empty
\* slots - fill all slots before saving", "Failed to fill slot" and "Click on
\* an empty slot to place this type".
C2_MessageKinds ==
    \/ error_message = None
    \/ Head(error_message[1]) \in IoFailurePrefixes
    \/ error_message[1] \in {CannotSaveEmpty, EmptySlotsMsg, FailedToFill, ClickOnSlotMsg}

C2_Witness ==
    /\ last_op.op = "add_type_from_picker"
    /\ last_op.target_slot # None
    /\ error_message = Some(FailedToFill)

\* C3: a recorded click is processed by at most one render, render leaves
\* the cell empty, and the cell always holds the most recent click, which
\* no render has processed yet.
C3_ClickProcessedOnce ==
    /\ \A i, j \in 1..Len(processed) : i < j => processed[i] < processed[j]
    /\ pending_slot_selection # None =>
        /\ pending_slot_selection[1].click = clicks
        /\ \A i \in 1..Len(processed) : processed[i] < clicks
    /\ last_op.op = "render" => pending_slot_selection = None

\* two clicks were recorded before a render, which processed the second only
C3_Witness ==
    /\ last_op.op = "render"
    /\ clicks = 2
    /\ processed = <<2>>

\* C4: the three outcomes of new_with_file.
C4_NewWithFile ==
    last_op.op = "new_with_file" =>
        /\ file_path = Some(TheFilePath)
        /\ selected_slot = None
        /\ pending_block = None
        /\ preview_needs_update = FALSE
        /\ IF fs_file = None
           THEN /\ canvas = None
                /\ display_name = "New Alias"
                /\ error_message = None
           ELSE IF "json" \in DOMAIN fs_file[1]
           THEN /\ canvas # None
                /\ to_ast(canvas[1]) = Some(fs_file[1].json.ast)
                /\ name = fs_file[1].json.name
                /\ display_name = fs_file[1].json.display_name
                /\ description = IF fs_file[1].json.description = None THEN ""
                                 ELSE fs_file[1].json.description[1]
                /\ error_message = None
           ELSE /\ canvas = None
                /\ display_name = "New Alias"
                /\ error_message # None
                /\ Head(error_message[1]) = "Failed to parse: "

C4_Witness ==
    /\ last_op.op = "new_with_file"
    /\ fs_file # None
    /\ "json" \in DOMAIN fs_file[1]
    /\ fs_file[1].json.description = None
    /\ description = ""
    /\ canvas # None

\* the text the claim describes: items separated by ", " in their order
RECURSIVE SeparatedFrom(_, _)
SeparatedFrom(texts, i) ==
    IF i > Len(texts) THEN <<>>
    ELSE (IF i > 1 THEN <<", ">> ELSE <<>>) \o texts[i] \o SeparatedFrom(texts, i + 1)

RECURSIVE Printed(_)
Printed(ast) ==
    IF ast.kind = "Primitive" THEN <<ast.name>>
    ELSE IF ast.kind = "Path" THEN <<ast.path>>
    ELSE IF ast.kind = "AliasRef" THEN <<ast.alias>>
    ELSE IF ast.kind = "Constructor"
    THEN <<ast.name>> \o <<"<">>
         \o SeparatedFrom([i \in 1..Len(ast.params) |-> Printed(ast.params[i])], 1)
         \o <<">">>
    ELSE IF ast.kind = "Tuple"
    THEN <<"(">>
         \o SeparatedFrom([i \in 1..Len(ast.elements) |-> Printed(ast.elements[i])], 1)
         \o <<")">>
    ELSE <<"fn(">>
         \o SeparatedFrom([i \in 1..Len(ast.params) |-> Printed(ast.params[i])], 1)
         \o <<") -> ">> \o Printed(ast.return_type)

\* C5: ast_to_rust_string prints every variant as described, the params and
\* elements in their original order.
C5_AstToRustString ==
    ast_out # None => ast_out[1] = Printed(ast_in[1])

C5_Witness ==
    /\ ast_out # None
    /\ ast_in[1].kind = "FnPointer"
    /\ Len(ast_in[1].params) = 2
    /\ ast_in[1].params[1] # ast_in[1].params[2]
    /\ ast_in[1].params[1].kind = "Tuple"

\* C6: the request toggle_palette emits has target_slot = None.
C6_ToggleHasNoTarget ==
    last_op.op = "toggle_palette" => events = <<ShowTypePickerRequest(None)>>

\* a call of select_slot(parent_id, slot_idx) by render
SelectSlotCalled ==
    /\ last_op'.op = "render"
    /\ pending_slot_selection # None
    /\ pending_slot_selection[1].sel[1] # EmptyBlockId

RECURSIVE slot_content(_, _, _)
slot_content(b, parent_id, slot_idx) ==
    IF b.id = parent_id
    THEN IF slot_idx < Len(b.slots) THEN <<b.slots[slot_idx + 1]>> ELSE <<>>
    ELSE LET found == {i \in 1..Len(b.slots) :
                        /\ b.slots[i] # None
                        /\ slot_content(b.slots[i][1], parent_id, slot_idx) # <<>>}
         IN  IF found = {} THEN <<>>
             ELSE slot_content(b.slots[CHOOSE i \in found : TRUE][1],
                               parent_id, slot_idx)

\* C7 as stated: with a pending block select_slot fills the slot with it and
\* emits no request; without one it selects the slot, emits a request for
\* exactly that slot and leaves the canvas unchanged.
C7_SelectSlotFillsOrAsks ==
    [][SelectSlotCalled =>
        LET slot == pending_slot_selection[1].sel
        IN  IF pending_block # None
            THEN /\ events' = <<>>
                 /\ slot_content(canvas'[1], slot[1], slot[2])
                        = <<Some(pending_block[1])>>
            ELSE /\ selected_slot' = Some(slot)
                 /\ events' = <<ShowTypePickerRequest(Some(slot))>>
                 /\ canvas' = canvas]_vars

\* C7 amended: with a pending block select_slot emits no request and takes
\* the pending block; if the canvas still has the slot it is filled with the
\* block and selected_slot and error_message are cleared, otherwise the
\* canvas is unchanged, the slot stays selected and error_message is "Failed
\* to fill slot".  Without a pending block it selects the slot, emits a
\* request for exactly that slot and leaves the canvas unchanged.
C7_SelectSlotTriesOrAsks ==
    [][SelectSlotCalled =>
        LET slot == pending_slot_selection[1].sel
        IN  IF pending_block # None
            THEN /\ events' = <<>>
                 /\ pending_block' = None
                 /\ IF slot_content(canvas[1], slot[1], slot[2]) # <<>>
                    THEN /\ slot_content(canvas'[1], slot[1], slot[2])
                                = <<Some(pending_block[1])>>
                         /\ selected_slot' = None
                         /\ error_message' = None
                    ELSE /\ canvas' = canvas
                         /\ selected_slot' = Some(slot)
                         /\ error_message' = Some(FailedToFill)
            ELSE /\ selected_slot' = Some(slot)
                 /\ events' = <<ShowTypePickerRequest(Some(slot))>>
                 /\ canvas' = canvas]_vars

\* select_slot ran with a pending block and the slot now holds it
C7_Witness ==
    /\ last_op.op = "render"
    /\ last_op.select_slot # None
    /\ last_op.select_slot[1].pending_block # None
    /\ canvas # None
    /\ slot_content(canvas[1], last_op.select_slot[1].parent_id,
                    last_op.select_slot[1].slot_idx)
            = <<last_op.select_slot[1].pending_block>>

PreviewOfCanvas ==
    IF canvas = None THEN NoRootPreview
    ELSE IF to_ast(canvas[1]) = None THEN EmptySlotsPreview
    ELSE generate_preview_code(display_name, to_ast(canvas[1])[1])

\* C8: whenever preview_needs_update is false, the preview shows the text
\* for the current canvas.
C8_PreviewIsLive ==
    preview_needs_update = FALSE => preview_input = PreviewOfCanvas

\* a render refreshed the preview of a root that was completed by filling
\* a slot with a pending block
C8_Witness ==
    /\ last_op.op = "render"
    /\ last_op.select_slot = None
    /\ preview_needs_update = FALSE
    /\ fs_file = None
    /\ RootComplete
    /\ canvas[1].kind = "Constructor"
    /\ preview_input = PreviewOfCanvas

CategoryNames(cs) == {cs[i][1] : i \in 1..Len(cs)}

ItemsOfCategory(reg, c) ==
    LET F[i \in 0..Len(reg)] ==
            IF i = 0 THEN <<>>
            ELSE IF reg[i].category = c
                 THEN Append(F[i - 1], ConstructorItem(reg[i].name,
                                 reg[i].params_count, reg[i].description))
                 ELSE F[i - 1]
    IN  F[Len(reg)]

AddBlockCalled ==
    /\ last_op'.op = "add_type_from_picker"
    /\ last_op'.target_slot = None

\* C10: add_block_to_canvas without a root places the block as root and
\* clears error_message, pending_block and selected_slot; with a root and no
\* selected slot it keeps the canvas, stores the block as pending and asks
\* for a click on an empty slot.
C10_AddBlockToCanvas ==
    [][AddBlockCalled =>
        LET block == to_block(last_op'.type_item, next_id)
        IN  /\ canvas = None =>
                /\ canvas' = Some(block)
                /\ error_message' = None
                /\ pending_block' = None
                /\ selected_slot' = None
            /\ (canvas # None /\ selected_slot = None) =>
                /\ canvas' = canvas
                /\ pending_block' = Some(block)
                /\ error_message' = Some(ClickOnSlotMsg)]_vars

C10_Witness ==
    /\ last_op.op = "add_type_from_picker"
    /\ last_op.target_slot = None
    /\ canvas # None
    /\ selected_slot = None
    /\ pending_block # None
    /\ pending_block[1].id = next_id - 1
    /\ error_message = Some(ClickOnSlotMsg)

\* add_type_from_picker(item, target_slot)
PickerCalled == last_op'.op = "add_type_from_picker"

\* C11: with Some(slot) add_type_from_picker fills exactly that slot, whatever
\* selected_slot is: on success the slot holds the new block, the other
\* empty slots stay empty, error_message and selected_slot are cleared and
\* pending_block is kept; on failure the canvas, selected_slot and
\* pending_block are unchanged and error_message is "Failed to fill slot".
\* With None it leaves the editor as add_block_to_canvas(item.to_block()) does.
C11_AddTypeFromPicker ==
    [][PickerCalled =>
        LET block == to_block(last_op'.type_item, next_id)
            target == last_op'.target_slot
        IN  IF target # None
            THEN IF canvas # None
                    /\ slot_content(canvas[1], target[1][1], target[1][2]) # <<>>
                 THEN /\ slot_content(canvas'[1], target[1][1], target[1][2])
                            = <<Some(block)>>
                      /\ canvas'[1].id = canvas[1].id
                      /\ (empty_slots_of(canvas[1]) \cap slots_of(canvas'[1]))
                            \ {target[1]} \subseteq empty_slots_of(canvas'[1])
                      /\ empty_slots_of(canvas'[1]) \ empty_slots_of(block)
                            \subseteq empty_slots_of(canvas[1]) \ {target[1]}
                      /\ error_message' = None
                      /\ selected_slot' = None
                      /\ pending_block' = pending_block
                 ELSE /\ canvas' = canvas
                      /\ error_message' = Some(FailedToFill)
                      /\ selected_slot' = selected_slot
                      /\ pending_block' = pending_block
            ELSE LET s == add_block_to_canvas(Self, block)
                 IN  /\ canvas' = s.canvas
                     /\ error_message' = s.error_message
                     /\ selected_slot' = s.selected_slot
                     /\ pending_block' = s.pending_block
                     /\ preview_needs_update' = s.preview_needs_update
                     /\ events' = <<>>]_vars

\* a picker filled its own target slot while the root keeps another empty
\* slot and a block is still pending
C11_Witness ==
    /\ last_op.op = "add_type_from_picker"
    /\ last_op.target_slot # None
    /\ canvas # None
    /\ slot_content(canvas[1], last_op.target_slot[1][1], last_op.target_slot[1][2])
            = <<Some(to_block(last_op.type_item, next_id - 1))>>
    /\ empty_slots_of(canvas[1]) \ empty_slots_of(to_block(last_op.type_item, next_id - 1)) # {}
    /\ pending_block # None
    /\ selected_slot = None
    /\ error_message = None

====
